---- MODULE Spec2Model ----
(***************************************************************************)
(* Model of the OpenSCENARIO dataset preprocessing scripts.                *)
(*                                                                         *)
(*   scripts/reduce_xosc.py      structural reduction of a document        *)
(*   scripts/inject_diversity.py randomized mutation of a document         *)
(*   scripts/xsd_filter.py       schema filter of a folder                 *)
(*                                                                         *)
(* A document is the part of the XML tree the scripts look at:             *)
(*   objs     the ScenarioObject children of Entities, in document order   *)
(*   privs    the Private elements, in document order                      *)
(*   stories  the Story elements, each with its ManeuverGroups             *)
(*   entities whether an Entities element exists                           *)
(*   envs     the Environment elements (TimeOfDay, Weather)                *)
(* Every element carries an id, the position it had in the file it was     *)
(* read from, which stands for the identity of the ElementTree node.       *)
(***************************************************************************)
EXTENDS Integers, Sequences, FiniteSets, TLC

\* ------------------------------------------------------------------ bounds

\* Largest number of ScenarioObject + Private + Story + ManeuverGroup
\* elements of an enumerated input document.
MaxNodes == 4

\* How many times in a row reduce_xosc_tree is applied to one document.
MaxPasses == 2

\* --------------------------------------------------------------- constants

EGO_NAME == "ego_vehicle"

\* A missing (None) or empty attribute: both are falsy in the code.
NoName == ""

Truthy(s) == s # NoName

\* ------------------------------------------------------- sequence helpers

Range(s) == {s[i] : i \in DOMAIN s}

\* The subsequence of s at the indices in keep, in order.
RECURSIVE SubSeqAt(_, _, _)
SubSeqAt(s, keep, i) ==
    IF i > Len(s) THEN <<>>
    ELSE (IF i \in keep THEN <<s[i]>> ELSE <<>>) \o SubSeqAt(s, keep, i + 1)

Restrict(s, keep) == SubSeqAt(s, keep, 1)

\* ------------------------------------------------------ reduce_xosc.py

\* findall_local(root, "ScenarioObject"): the objects in document order.
scenario_objects(root) == DOMAIN root.objs

\* name_to_obj.get(nm): the map is filled in document order, a later object
\* of the same name overwrites an earlier one; objects without a name are
\* not entered.  0 stands for None.
name_to_obj(root, alive, nm) ==
    LET hits == {i \in alive : Truthy(root.objs[i].name) /\ root.objs[i].name = nm}
    IN  IF hits = {} THEN 0 ELSE CHOOSE i \in hits : \A j \in hits : j <= i

\* The candidates for the kept secondary vehicle (lines 67-75).
IsVehicleCandidate(so) == so.name # EGO_NAME /\ so.veh /\ ~so.ped

RECURSIVE vehicle_objs_from(_, _)
vehicle_objs_from(root, i) ==
    IF i > Len(root.objs) THEN <<>>
    ELSE (IF IsVehicleCandidate(root.objs[i]) THEN <<i>> ELSE <<>>)
         \o vehicle_objs_from(root, i + 1)

vehicle_objs(root) == vehicle_objs_from(root, 1)

\* The last candidate instead of the first.
second_vehicle_obj_last(root) ==
    IF vehicle_objs(root) # <<>> THEN vehicle_objs(root)[Len(vehicle_objs(root))] ELSE 0

second_vehicle_obj(root) ==
    IF vehicle_objs(root) # <<>> THEN vehicle_objs(root)[1] ELSE 0

second_vehicle_name(root) ==
    IF second_vehicle_obj(root) # 0
    THEN root.objs[second_vehicle_obj(root)].name
    ELSE NoName

\* The pruning loop run over the live list of objects while removing from
\* it: the object that follows a removed one is skipped.
RECURSIVE so_removed_live_iteration(_, _)
so_removed_live_iteration(root, i) ==
    LET ego_obj == name_to_obj(root, scenario_objects(root), EGO_NAME)
        second  == second_vehicle_obj(root)
    IN  /\ i # ego_obj
        /\ ~root.objs[i].ped
        /\ root.objs[i].veh
        /\ \/ second # 0 /\ i # second
           \/ second = 0
        /\ \/ i = 1
           \/ ~so_removed_live_iteration(root, i - 1)

\* The pruning loop without its "so is ego_obj" test.
so_removed_no_ego_test(root, i) ==
    LET second == second_vehicle_obj(root)
    IN  /\ ~root.objs[i].ped
        /\ root.objs[i].veh
        /\ \/ second # 0 /\ i # second
           \/ second = 0

\* The pruning loop without its Pedestrian test.
so_removed_no_ped_test(root, i) ==
    LET ego_obj == name_to_obj(root, scenario_objects(root), EGO_NAME)
        second  == second_vehicle_obj(root)
    IN  /\ i # ego_obj
        /\ root.objs[i].veh
        /\ \/ second # 0 /\ i # second
           \/ second = 0

\* The pruning loop (lines 84-104): is object i removed?
\* Without the test of line 90: objects with no Vehicle child are removed too.
so_removed_no_vehicle_test(root, i) ==
    LET ego_obj == name_to_obj(root, scenario_objects(root), EGO_NAME)
        second  == second_vehicle_obj(root)
    IN  /\ i # ego_obj
        /\ ~root.objs[i].ped
        /\ \/ second # 0 /\ i # second
           \/ second = 0

so_removed(root, i) ==
    LET ego_obj == name_to_obj(root, scenario_objects(root), EGO_NAME)
        second  == second_vehicle_obj(root)
    IN  /\ i # ego_obj
        /\ ~root.objs[i].ped
        /\ root.objs[i].veh
        /\ \/ second # 0 /\ i # second
           \/ second = 0

kept_objs(root) == {i \in scenario_objects(root) : ~so_removed(root, i)}

\* Every candidate vehicle's name allowed, not only the kept one's.
allowed_refs_any_vehicle(root) ==
    {EGO_NAME} \cup {root.objs[vehicle_objs(root)[k]].name : k \in DOMAIN vehicle_objs(root)}

\* The names of all the objects that stay, the ego name with them.
allowed_refs_kept_objects(root) ==
    {EGO_NAME} \cup {root.objs[i].name : i \in kept_objs(root)}

\* Lines 106-115: the lookup of the kept vehicle after pruning, and the
\* entity references a Private may keep.
allowed_refs(root) ==
    LET nm      == second_vehicle_name(root)
        second2 == IF Truthy(nm) THEN name_to_obj(root, kept_objs(root), nm) ELSE 0
    IN  {EGO_NAME} \cup (IF second2 # 0 /\ Truthy(nm) THEN {nm} ELSE {})

kept_privs(root) == {i \in DOMAIN root.privs : root.privs[i].ref \in allowed_refs(root)}

\* Only the EntityRef elements under Actors looked at.
mg_refs_actors_only(mg, target_name) == target_name \in mg.actors

\* mg_refs_second_vehicle (lines 130-136): any EntityRef below the group,
\* under Actors or under a trigger's TriggeringEntities.
mg_refs_second_vehicle(mg, target_name) ==
    \E r \in mg.actors \cup mg.trig : r = target_name

\* Every group kept when there is no kept vehicle to select by.
mg_keep_without_second(root, mg) ==
    \/ ~Truthy(second_vehicle_name(root))
    \/ mg_refs_second_vehicle(mg, second_vehicle_name(root))

\* Lines 138-141: keep is False unless there is a kept vehicle the group
\* refers to.
mg_keep(root, mg) ==
    /\ Truthy(second_vehicle_name(root))
    /\ mg_refs_second_vehicle(mg, second_vehicle_name(root))

kept_groups(root, story) ==
    {g \in DOMAIN story.groups : mg_keep(root, story.groups[g])}

\* The last Story kept, not the first.
kept_stories_last(stories) == IF Len(stories) > 1 THEN {Len(stories)} ELSE DOMAIN stories

\* Lines 149-157: only the first Story stays.
kept_stories(stories) == IF Len(stories) > 1 THEN {1} ELSE DOMAIN stories

reduce_xosc_tree(root) ==
    [root EXCEPT
        !.objs    = Restrict(root.objs, kept_objs(root)),
        !.privs   = Restrict(root.privs, kept_privs(root)),
        !.stories = Restrict(
            [s \in DOMAIN root.stories |->
                [root.stories[s] EXCEPT
                    !.groups = Restrict(root.stories[s].groups,
                                        kept_groups(root, root.stories[s]))]],
            kept_stories(root.stories))]

\* -------------------------------------------------- inject_diversity.py

\* The random source.  random.random() is a value u / RandMod with u in
\* 0..RandMod-1; the state of the generator is the next u, and every call
\* of random(), uniform(), choice() or randrange() takes one value from the
\* stream and advances it.
RandMod == 8

SEED == 42

PROB_PED == 20
PROB_TOD == 100
PROB_CLOUD == 20
PROB_SUN == 20
PROB_FOG == 100

CLOUD_CHOICES == << "free", "cloudy", "skyOff", "overcast", "rainy" >>
PRECIP_CHOICES == << "rain", "dry", "snow" >>

\* The seconds from 2019-01-01T00:00:00 to 2025-08-20T23:59:59 (lines 43-45);
\* a dateTime is held as its offset in seconds from the start of the window.
WindowSeconds == 209433599

\* random.seed(s): the state the stream starts in.
seed(s) == s % RandMod

\* The state after one draw.
rand_next(r) == (5 * r + 3) % RandMod

\* random.random() < prob, prob in percent.
rand_below(u, prob) == u * 100 < prob * RandMod

\* random.choice(seq)
choice(seq, u) == seq[(u * Len(seq)) \div RandMod + 1]

\* format_float(random.uniform(lo, hi), nd): lo + (hi - lo) * random() in
\* units of the last decimal of the format (lo and hi given in those units),
\* rounded to the nearest.
uniform(lo, hi, u) == lo + (2 * (hi - lo) * u + RandMod) \div (2 * RandMod)

\* random.randrange(n): one of 0 .. n-1.  The values of the stream are spread
\* over them, the smallest on 0 and the largest on n-1.
randrange(n, u) == (u * (n - 1)) \div (RandMod - 1)

\* random_datetime_post_2018 (lines 42-47): start + randrange(delta).
random_datetime_post_2018(u) == randrange(WindowSeconds, u)

\* unique_so_name (lines 68-76): ped, then ped2, ped3, ...
ped_name(i) == IF i = 1 THEN "ped" ELSE "ped" \o ToString(i)

RECURSIVE probe_so_name(_, _)
probe_so_name(existing, i) ==
    IF ped_name(i) \in existing THEN probe_so_name(existing, i + 1) ELSE ped_name(i)

\* The base name, whatever exists.
unique_so_name_base(objs) == "ped"

unique_so_name(objs) ==
    LET existing == {objs[i].name : i \in DOMAIN objs}
    IN  IF "ped" \notin existing THEN "ped" ELSE probe_so_name(existing, 2)

\* make_pedestrian_scenarioobject (lines 52-66); id 0: not read from a file.
make_pedestrian_scenarioobject(name) ==
    [id |-> 0, name |-> name, veh |-> FALSE, ped |-> TRUE]

\* Each operation below takes the tree t and the stream state r and gives
\* the tree and the stream state after it: [t |-> ..., r |-> ...].

\* inject_pedestrian (lines 79-86)
inject_pedestrian(t, r) ==
    IF ~t.entities THEN [t |-> t, r |-> r]
    ELSE IF rand_below(r, PROB_PED)
         THEN [t |-> [t EXCEPT !.objs =
                         Append(@, make_pedestrian_scenarioobject(unique_so_name(@)))],
               r |-> rand_next(r)]
         ELSE [t |-> t, r |-> rand_next(r)]

\* mutate_time_of_day (lines 88-95), from Environment k on.
RECURSIVE mutate_time_of_day_from(_, _, _)
mutate_time_of_day_from(t, r, k) ==
    IF k > Len(t.envs) THEN [t |-> t, r |-> r]
    ELSE IF ~t.envs[k].tod.present THEN mutate_time_of_day_from(t, r, k + 1)
    ELSE IF rand_below(r, PROB_TOD)
         THEN mutate_time_of_day_from(
                  [t EXCEPT !.envs[k].tod.dateTime =
                                random_datetime_post_2018(rand_next(r))],
                  rand_next(rand_next(r)), k + 1)
         ELSE mutate_time_of_day_from(t, rand_next(r), k + 1)

mutate_time_of_day(t, r) == mutate_time_of_day_from(t, r, 1)

\* The intensity set for every Precipitation, without the test of line 120.
RECURSIVE mutate_precs_overwrite(_, _, _)
mutate_precs_overwrite(precs, r, k) ==
    IF k > Len(precs) THEN [p |-> precs, r |-> r]
    ELSE mutate_precs_overwrite(
             [precs EXCEPT ![k] =
                 [precipitationType |-> choice(PRECIP_CHOICES, r),
                  has_intensity |-> TRUE,
                  intensity |-> uniform(0, 1000, rand_next(r))]],
             rand_next(rand_next(r)), k + 1)

\* Lines 118-122: the Precipitation children that exist, from child k on.
RECURSIVE mutate_precs(_, _, _)
mutate_precs(precs, r, k) ==
    IF k > Len(precs) THEN [p |-> precs, r |-> r]
    ELSE LET typed == [precs[k] EXCEPT !.precipitationType = choice(PRECIP_CHOICES, r)]
         IN  IF precs[k].has_intensity
             THEN mutate_precs([precs EXCEPT ![k] = typed], rand_next(r), k + 1)
             ELSE mutate_precs(
                      [precs EXCEPT ![k] =
                          [typed EXCEPT !.has_intensity = TRUE,
                                        !.intensity = uniform(0, 1000, rand_next(r))]],
                      rand_next(rand_next(r)), k + 1)

\* Only the else branch of lines 110-122.
precipitation_only_existing(precs, r) == mutate_precs(precs, r, 1)

\* Lines 110-122: one Precipitation made when there is none.
precipitation(precs, r) ==
    IF precs = <<>>
    THEN [p |-> << [precipitationType |-> choice(PRECIP_CHOICES, rand_next(r)),
                    has_intensity |-> TRUE,
                    intensity |-> uniform(0, 1000, r)] >>,
          r |-> rand_next(rand_next(r))]
    ELSE mutate_precs(precs, r, 1)

\* Lines 125-130: the Sun children, from child k on.
RECURSIVE mutate_suns(_, _, _)
mutate_suns(suns, r, k) ==
    IF k > Len(suns) THEN [s |-> suns, r |-> r]
    ELSE IF rand_below(r, PROB_SUN)
         THEN LET r1 == rand_next(r)
                  r2 == rand_next(r1)
                  r3 == rand_next(r2)
              IN  mutate_suns(
                      [suns EXCEPT ![k] =
                          [azimuth   |-> uniform(-3141590, 3141590, r1),
                           elevation |-> uniform(-1570800, 1570800, r2),
                           intensity |-> uniform(0, 1000, r3)]],
                      rand_next(r3), k + 1)
         ELSE mutate_suns(suns, rand_next(r), k + 1)

\* Lines 133-136: the Fog children, from child k on.
RECURSIVE mutate_fogs(_, _, _)
mutate_fogs(fogs, r, k) ==
    IF k > Len(fogs) THEN [f |-> fogs, r |-> r]
    ELSE IF rand_below(r, PROB_FOG)
         THEN mutate_fogs(
                  [fogs EXCEPT ![k] = [visualRange |-> uniform(0, 100000, rand_next(r))]],
                  rand_next(rand_next(r)), k + 1)
         ELSE mutate_fogs(fogs, rand_next(r), k + 1)

\* mutate_weather (lines 97-138), from Environment k on.
RECURSIVE mutate_weather_from(_, _, _)
mutate_weather_from(t, r, k) ==
    IF k > Len(t.envs) THEN [t |-> t, r |-> r]
    ELSE IF ~t.envs[k].weather.present THEN mutate_weather_from(t, r, k + 1)
    ELSE LET w     == t.envs[k].weather
             cloud == IF rand_below(r, PROB_CLOUD)
                      THEN [c |-> choice(CLOUD_CHOICES, rand_next(r)),
                            r |-> rand_next(rand_next(r))]
                      ELSE [c |-> w.cloudState, r |-> rand_next(r)]
             prec  == precipitation(w.precs, cloud.r)
             sun   == mutate_suns(w.suns, prec.r, 1)
             fog   == mutate_fogs(w.fogs, sun.r, 1)
         IN  mutate_weather_from(
                 [t EXCEPT !.envs[k].weather =
                     [present |-> TRUE, cloudState |-> cloud.c, precs |-> prec.p,
                      suns |-> sun.s, fogs |-> fog.f]],
                 fog.r, k + 1)

mutate_weather(t, r) == mutate_weather_from(t, r, 1)

\* The three mutations of process_file (lines 148-150), in order.
inject(t, r) ==
    LET a == inject_pedestrian(t, r)
        b == mutate_time_of_day(a.t, a.r)
    IN  mutate_weather(b.t, b.r)

\* ------------------------------------------------------ xosc_describer.py

\* The tag of an element is a namespace (NoName: none) and a local name; the
\* model holds the elements of a document by local name, and the document's
\* namespace once, in its field ns.
NoNamespace == NoName

\* root.find / findall / iter of xml.etree with a path of plain names
\* (lines 25-105): a step matches an element whose whole tag is the name, so
\* none of a document whose elements carry a namespace.
path_matches(root) == root.ns = NoNamespace

\* The documents of the model hold no RoadNetwork, no Wind and no
\* WorldPosition, and every TimeOfDay has a dateTime: map, wind and
\* initial_positions stay as lines 11-18 set them and are left out.  A field
\* of the features is a sequence, empty for None.

\* Lines 30-33: the dateTime of the first Environment/TimeOfDay.
first_tod(root) ==
    LET hits == {k \in DOMAIN root.envs : root.envs[k].tod.present}
    IN  IF hits = {} THEN 0 ELSE CHOOSE k \in hits : \A j \in hits : k <= j

time_of_day(root) ==
    IF path_matches(root) /\ first_tod(root) # 0
    THEN << root.envs[first_tod(root)].tod.dateTime >>
    ELSE << >>

first_weather(root) ==
    LET hits == {k \in DOMAIN root.envs : root.envs[k].weather.present}
    IN  IF hits = {} THEN 0 ELSE CHOOSE k \in hits : \A j \in hits : k <= j

\* Lines 35-53: cloud_state, precipitation and fog of the first
\* Environment/Weather.
weather_features(root) ==
    IF path_matches(root) /\ first_weather(root) # 0
    THEN LET w == root.envs[first_weather(root)].weather
         IN  [cloud_state   |-> << w.cloudState >>,
              precipitation |->
                  IF w.precs = <<>> THEN << >>
                  ELSE IF w.precs[1].has_intensity
                       THEN << w.precs[1].precipitationType, "intensity",
                               w.precs[1].intensity >>
                       ELSE << w.precs[1].precipitationType >>,
              fog           |-> IF w.fogs = <<>> THEN << >>
                                ELSE << w.fogs[1].visualRange >>]
    ELSE [cloud_state |-> << >>, precipitation |-> << >>, fog |-> << >>]

\* Lines 68-77: the category of a ScenarioObject.
etype(so) ==
    IF so.name = EGO_NAME THEN "ego"
    ELSE IF so.ped THEN "pedestrian"
    ELSE IF so.misc THEN "misc"
    ELSE "vehicle"

\* Lines 66-80: the named objects of Entities, in document order.
RECURSIVE entities_from(_, _)
entities_from(root, i) ==
    IF i > Len(root.objs) THEN << >>
    ELSE (IF Truthy(root.objs[i].name)
          THEN << [name |-> root.objs[i].name, type |-> etype(root.objs[i])] >>
          ELSE << >>)
         \o entities_from(root, i + 1)

entities_features(root) ==
    IF path_matches(root) /\ root.entities THEN entities_from(root, 1) ELSE << >>

\* Lines 104-112: one clause for a SimulationTimeCondition that has a value.
time_clause(cond) ==
    IF ~Truthy(cond.value) THEN << >>
    ELSE IF Truthy(cond.rule)
         THEN << [clause |-> "when", text |-> << "when", "sim_time", cond.rule, cond.value >>] >>
         ELSE << [clause |-> "after", text |-> << "after", cond.value >>] >>

\* Lines 105-112: the loop over the conditions of the start trigger, from
\* condition k on.
RECURSIVE time_clauses(_, _)
time_clauses(conds, k) ==
    IF k > Len(conds) THEN << >>
    ELSE time_clause(conds[k]) \o time_clauses(conds, k + 1)

\* No tag: None.
NoTag == << >>

\* Lines 118-129: the loop over the stack.  The node is taken from the front
\* and its children are put at the back.
RECURSIVE leaf_search(_)
leaf_search(stack) ==
    IF stack = << >> THEN NoTag
    ELSE LET node == Head(stack)
         IN  IF node.children = << >> THEN node.tag
             ELSE leaf_search(Tail(stack) \o node.children)

\* Lines 116-136: the leaf type of one Action; with no leaf found the first
\* child of the Action, and an Action without children has none.
leaf_type(act) ==
    IF leaf_search(act.children) # NoTag THEN leaf_search(act.children)
    ELSE IF act.children # << >> THEN act.children[1].tag
    ELSE NoTag

RECURSIVE action_types_from(_, _)
action_types_from(actions, k) ==
    IF k > Len(actions) THEN << >>
    ELSE (IF leaf_type(actions[k]) # NoTag THEN << leaf_type(actions[k]) >> ELSE << >>)
         \o action_types_from(actions, k + 1)

action_types(ev) == action_types_from(ev.actions, 1)

\* Lines 95-139: the bits of the description of one Event.
desc_bits(ev) ==
    (IF Truthy(ev.name) THEN << [clause |-> "name", text |-> << ev.name >>] >> ELSE << >>)
    \o (IF ev.has_trigger THEN time_clauses(ev.conds, 1) ELSE << >>)
    \o (IF action_types(ev) # << >>
        THEN << [clause |-> "actions", text |-> action_types(ev)] >>
        ELSE << >>)

\* Lines 94-142: the descriptions of the events that have one.
RECURSIVE events_from(_, _)
events_from(root, k) ==
    IF k > Len(root.events) THEN << >>
    ELSE (IF desc_bits(root.events[k]) # << >>
          THEN << desc_bits(root.events[k]) >> ELSE << >>)
         \o events_from(root, k + 1)

events_features(root) ==
    IF path_matches(root) THEN events_from(root, 1) ELSE << >>

\* extract_features_from_xosc (lines 6-144), of a text that parses.
extract_features(root) ==
    [ time_of_day |-> time_of_day(root),
      weather     |-> weather_features(root),
      entities    |-> entities_features(root),
      events      |-> events_features(root) ]

\* ------------------------------------------------------ input documents

\* What an enumerated ScenarioObject can be.  veh / ped: whether it has a
\* Vehicle / a Pedestrian child; an object with neither holds a MiscObject
\* or a CatalogReference.
ObjKinds ==
    { [name |-> EGO_NAME, veh |-> TRUE,  ped |-> FALSE],
      [name |-> EGO_NAME, veh |-> FALSE, ped |-> FALSE],
      [name |-> "v1",     veh |-> TRUE,  ped |-> FALSE],
      [name |-> "v2",     veh |-> TRUE,  ped |-> FALSE],
      [name |-> "p1",     veh |-> FALSE, ped |-> TRUE],
      [name |-> "p1",     veh |-> TRUE,  ped |-> TRUE],
      [name |-> NoName,   veh |-> TRUE,  ped |-> FALSE],
      [name |-> "m1",     veh |-> FALSE, ped |-> FALSE] }

\* The entityRef of an enumerated Private; NoName: the attribute is missing.
PrivRefs == {EGO_NAME, "v1", "v2", "p1", NoName}

\* The EntityRef elements of an enumerated ManeuverGroup: those under its
\* Actors and those under the TriggeringEntities of its events' triggers.
GroupKinds == [actors : SUBSET {"v1", "v2"}, trig : SUBSET {"v1"}]

Tuples(n, S) == [1..n -> S]

\* The sequences of stories that hold m Story and ManeuverGroup elements.
RECURSIVE StoriesOfSize(_)
StoriesOfSize(m) ==
    IF m = 0 THEN {<<>>}
    ELSE UNION { { <<st>> \o rest : st \in Tuples(g, GroupKinds),
                                     rest \in StoriesOfSize(m - 1 - g) }
                 : g \in 0..(m - 1) }

\* The document with objects o, Private references p and stories s; each
\* element is numbered by its position.
MakeDoc(o, p, s) ==
    [ entities |-> TRUE,
      objs     |-> [i \in DOMAIN o |->
                       [id |-> i, name |-> o[i].name, veh |-> o[i].veh, ped |-> o[i].ped]],
      privs    |-> [i \in DOMAIN p |-> [id |-> i, ref |-> p[i]]],
      stories  |-> [i \in DOMAIN s |->
                       [id |-> i,
                        groups |-> [g \in DOMAIN s[i] |->
                                       [id |-> <<i, g>>, actors |-> s[i][g].actors,
                                        trig |-> s[i][g].trig]]]],
      envs     |-> <<>> ]

Sizes == {t \in (0..MaxNodes) \X (0..MaxNodes) \X (0..MaxNodes) :
              t[1] + t[2] + t[3] <= MaxNodes}

\* The concrete scenario of the specification: ego, two vehicles v1 and v2,
\* a pedestrian p1, two stories, Private and ManeuverGroup entries for v1
\* and v2.
ConcreteScenario ==
    MakeDoc(
        << [name |-> EGO_NAME, veh |-> TRUE,  ped |-> FALSE],
           [name |-> "v1",     veh |-> TRUE,  ped |-> FALSE],
           [name |-> "v2",     veh |-> TRUE,  ped |-> FALSE],
           [name |-> "p1",     veh |-> FALSE, ped |-> TRUE] >>,
        << EGO_NAME, "v1", "v2" >>,
        << << [actors |-> {"v1"}, trig |-> {}], [actors |-> {"v2"}, trig |-> {}] >>,
           << [actors |-> {"v1"}, trig |-> {}] >> >>)

\* ------------------------------------------------- documents to describe

\* A namespace the elements of a document can carry.
OSC_NS == "urn:openscenario"

\* The shapes of the elements below an Event's Action children: a forest of
\* n elements, each element given by the forest of its children.
RECURSIVE Forests(_)
Forests(n) ==
    IF n = 0 THEN { << >> }
    ELSE UNION { { << t >> \o rest : t \in Forests(k - 1), rest \in Forests(n - k) }
                 : k \in 1..n }

\* The elements of a forest, each tagged by its place in the document: the
\* positions on the way down to it.
RECURSIVE Tagged(_, _)
Tagged(forest, path) ==
    [i \in DOMAIN forest |->
        [tag |-> path \o << i >>, children |-> Tagged(forest[i], path \o << i >>)]]

\* Largest number of elements that are Action children of an Event or below
\* them.
MaxActionNodes == 4

\* Largest number of SimulationTimeCondition elements in a start trigger.
MaxConds == 2

\* What a SimulationTimeCondition can hold: a value, a rule, both.
CondKinds ==
    { [value |-> "5",    rule |-> NoName],
      [value |-> "10",   rule |-> "greaterThan"],
      [value |-> NoName, rule |-> "lessThan"] }

\* The document with namespace ns, the entities of shape e, the Environment
\* elements v and the events evs.
MakeXosc(ns, e, v, evs) ==
    [ ns       |-> ns,
      entities |-> e.entities,
      objs     |-> [i \in DOMAIN e.names |->
                       [id |-> i, name |-> e.names[i],
                        veh |-> e.names[i] \notin {"ped", "ped2"},
                        ped |-> e.names[i] \in {"ped", "ped2"}, misc |-> FALSE]],
      privs    |-> << >>,
      stories  |-> << >>,
      envs     |-> v,
      events   |-> evs ]

NoXosc == MakeXosc(NoNamespace, [entities |-> FALSE, names |-> << >>], << >>, << >>)

NoFeatures == extract_features(NoXosc)

\* --------------------------- xosc_describer.py: features_to_compact_prompt

\* The digest handed to features_to_compact_prompt holds texts: map and
\* time_of_day ("" for None), weather as the pairs of the dictionary in
\* insertion order ("" for None), the entities, the initial positions (the
\* coordinates as they print) and the events.

ENTITIES_SHOWN == 10
POSITIONS_SHOWN == 6
EVENTS_SHOWN == 10

\* items[:n] without the limit.
slice_all(items, n) == items

\* items[:n]
slice(items, n) == IF Len(items) <= n THEN items ELSE SubSeq(items, 1, n)

\* sep.join(items)
RECURSIVE join(_, _)
join(items, sep) ==
    IF items = << >> THEN ""
    ELSE IF Len(items) = 1 THEN items[1]
    ELSE items[1] \o sep \o join(Tail(items), sep)

\* Line 154: the parts of the weather values that are not empty.
RECURSIVE wparts(_)
wparts(w) ==
    IF w = << >> THEN << >>
    ELSE (IF w[1].v # "" THEN << w[1].k \o "=" \o w[1].v >> ELSE << >>)
         \o wparts(Tail(w))

\* Line 157
ents(entities) ==
    [i \in DOMAIN entities |-> entities[i].name \o "(" \o entities[i].type \o ")"]

\* Lines 160-162
ips(positions) ==
    [i \in DOMAIN positions |->
        positions[i].entity \o "@(" \o positions[i].x \o "," \o positions[i].y \o ","
            \o positions[i].z \o ",h=" \o positions[i].h \o ")"]

\* Lines 150-165: the lines, in order.
compact_lines(digest_in) ==
    (IF digest_in.map # "" THEN << "Map: " \o digest_in.map >> ELSE << >>)
    \o (IF digest_in.time_of_day # ""
        THEN << "TimeOfDay: " \o digest_in.time_of_day >> ELSE << >>)
    \o (IF wparts(digest_in.weather) # << >>
        THEN << "Weather: " \o join(wparts(digest_in.weather), ", ") >> ELSE << >>)
    \o (IF digest_in.entities # << >>
        THEN << "Entities: "
                  \o join(ents(slice(digest_in.entities, ENTITIES_SHOWN)), ", ") >>
        ELSE << >>)
    \o (IF digest_in.initial_positions # << >>
        THEN << "InitialPositions: "
                  \o join(ips(slice(digest_in.initial_positions, POSITIONS_SHOWN)), "; ") >>
        ELSE << >>)
    \o (IF digest_in.events # << >>
        THEN << "Events: " \o join(slice(digest_in.events, EVENTS_SHOWN), " | ") >>
        ELSE << >>)

\* Lines 166-167. No enumerated entry starts or ends with white space, so
\* the strip of line 166 leaves the body as it is.
features_to_compact_prompt(digest_in) ==
    IF join(compact_lines(digest_in), "\n") = ""
    THEN "No features extracted."
    ELSE join(compact_lines(digest_in), "\n")

\* --------------------------------------------------------- files, texts

\* The text of a file: whether it is well-formed XML, whether it starts with
\* an XML declaration, whether it holds comments, and the tree it parses to.
\* ET.fromstring / ET.parse: the parser drops the declaration and comments.
parse(text) == text.tree

\* ET.tostring(root, encoding="unicode") in reduce_xosc_string (no
\* declaration) and ET.tostring(root, encoding="utf-8", xml_declaration=True)
\* in inject_diversity's process_file.
tostring(tree, xml_declaration) ==
    [wf |-> TRUE, decl |-> xml_declaration, comments |-> FALSE, tree |-> tree]

\* reduce_xosc_string (lines 162-166), for a well-formed text.
reduce_xosc_string(xosc_text) == tostring(reduce_xosc_tree(parse(xosc_text)), FALSE)

\* A document with an Environment: a TimeOfDay, a Weather without
\* Precipitation, with one Sun and one Fog; ego and an entity named ped.
WeatherScenario ==
    [ entities |-> TRUE,
      objs     |-> << [id |-> 1, name |-> EGO_NAME, veh |-> TRUE, ped |-> FALSE],
                      [id |-> 2, name |-> "ped", veh |-> TRUE, ped |-> FALSE],
                      [id |-> 3, name |-> "v2", veh |-> TRUE, ped |-> FALSE] >>,
      privs    |-> << [id |-> 1, ref |-> EGO_NAME], [id |-> 2, ref |-> "v2"] >>,
      stories  |-> <<>>,
      envs     |-> << [ tod     |-> [present |-> TRUE, dateTime |-> -1],
                        weather |-> [present |-> TRUE, cloudState |-> "free",
                                     precs |-> <<>>,
                                     suns |-> << [azimuth |-> 0, elevation |-> 1300000,
                                                  intensity |-> 850] >>,
                                     fogs |-> << [visualRange |-> 10000000] >>] ] >> ]

\* The Entities of an enumerated document for injection: none at all, or the
\* names of its ScenarioObject children (each with a Vehicle child).
EntityShapes ==
    { [entities |-> FALSE, names |-> <<>>],
      [entities |-> TRUE,  names |-> <<>>],
      [entities |-> TRUE,  names |-> << EGO_NAME >>],
      [entities |-> TRUE,  names |-> << EGO_NAME, "ped" >>],
      [entities |-> TRUE,  names |-> << "ped2", EGO_NAME, "ped" >>],
      [entities |-> TRUE,  names |-> << EGO_NAME, "ped3" >>] }

NoTimeOfDay == [present |-> FALSE, dateTime |-> -1]

\* A TimeOfDay whose dateTime is outside the window.
OldTimeOfDay == [present |-> TRUE, dateTime |-> -1]

NoWeather ==
    [present |-> FALSE, cloudState |-> "", precs |-> <<>>, suns |-> <<>>, fogs |-> <<>>]

\* The Weather of an enumerated Environment: none; one without Precipitation,
\* with a Sun and a Fog; one with a Precipitation that has no intensity; one
\* with two Precipitation children.
WeatherKinds ==
    { NoWeather,
      [present |-> TRUE, cloudState |-> "free", precs |-> <<>>,
       suns |-> << [azimuth |-> 0, elevation |-> 1300000, intensity |-> 850] >>,
       fogs |-> << [visualRange |-> 10000000] >>],
      [present |-> TRUE, cloudState |-> "rainy",
       precs |-> << [precipitationType |-> "hail", has_intensity |-> FALSE,
                     intensity |-> 0] >>,
       suns |-> <<>>, fogs |-> <<>>],
      [present |-> TRUE, cloudState |-> "cloudy",
       precs |-> << [precipitationType |-> "rain", has_intensity |-> TRUE,
                     intensity |-> 2000],
                    [precipitationType |-> "snow", has_intensity |-> FALSE,
                     intensity |-> 0] >>,
       suns |-> <<>>, fogs |-> <<>>] }

EnvKinds == [tod : {NoTimeOfDay, OldTimeOfDay}, weather : WeatherKinds]

\* Largest number of Environment elements in an enumerated document.
MaxEnvs == 2

\* The document with the entities of shape e and the Environment elements v.
MakeEnvDoc(e, v) ==
    [ entities |-> e.entities,
      objs     |-> [i \in DOMAIN e.names |->
                       [id |-> i, name |-> e.names[i], veh |-> TRUE, ped |-> FALSE]],
      privs    |-> <<>>,
      stories  |-> <<>>,
      envs     |-> v ]

\* The input files a batch run can meet: readable or not, well-formed or not.
InputFiles ==
    { [readable |-> TRUE,
       text |-> [wf |-> TRUE, decl |-> TRUE, comments |-> TRUE, tree |-> ConcreteScenario]],
      [readable |-> TRUE,
       text |-> [wf |-> TRUE, decl |-> FALSE, comments |-> FALSE, tree |-> WeatherScenario]],
      [readable |-> TRUE,
       text |-> [wf |-> FALSE, decl |-> TRUE, comments |-> FALSE, tree |-> ConcreteScenario]],
      [readable |-> FALSE,
       text |-> [wf |-> TRUE, decl |-> TRUE, comments |-> FALSE, tree |-> ConcreteScenario]] }

\* Largest number of .xosc files in the input folder of a batch run.
MaxFiles == 2

Folders == UNION { Tuples(n, InputFiles) : n \in 0..MaxFiles }

\* No file, no text, no tree.
NoText == [wf |-> FALSE, decl |-> FALSE, comments |-> FALSE, tree |-> MakeDoc(<<>>, <<>>, <<>>)]

\* xsd_ok(xml_text, xsd_path): (True, None) for a text the schema accepts,
\* (False, reason) for one it rejects, (None, reason) when the schema itself
\* cannot be loaded.
xsd_ok_results == {"valid", "invalid", "unavailable"}

\* ------------------------------------------- build_dataset.py: the texts

MaxBuildFiles == 2
MaxRuns == 2

\* str.strip() of line 101: a text is a sequence of characters; the white
\* space at both ends is removed.
IsSpace(c) == c \in {" ", "\n"}

RECURSIVE lstrip(_)
lstrip(text) ==
    IF text # << >> /\ IsSpace(Head(text)) THEN lstrip(Tail(text)) ELSE text

RECURSIVE rstrip(_)
rstrip(text) ==
    IF text # << >> /\ IsSpace(text[Len(text)])
    THEN rstrip(SubSeq(text, 1, Len(text) - 1))
    ELSE text

strip(text) == rstrip(lstrip(text))

\* What the files of an input folder can hold: two documents, and the first
\* of them followed by a line end.
XoscTexts == { << "a" >>, << "b" >>, << "a", "\n" >> }

\* Line 77: the files of input_dir sorted by path; the texts they hold are
\* in any order.
BuildFolders == UNION { Tuples(n, XoscTexts) : n \in 0..MaxBuildFiles }

\* Lines 125-130: the record of a document; the description comes from the
\* text-generation service and the system prompt is fixed.
record(xosc_text) == [assistant |-> xosc_text]

\* Lines 102-104: the files of the folder that are not skipped, given the
\* set loaded.
new_records(texts, seen) ==
    {i \in DOMAIN texts : strip(texts[i]) \notin seen}

\* ------------------------------------------------ the digests to render

MaxEntities == 11
MaxPositions == 7
MaxEvents == 11

EntityPool ==
    << [name |-> "ego_vehicle", type |-> "ego"], [name |-> "v1", type |-> "vehicle"],
       [name |-> "p1", type |-> "pedestrian"], [name |-> "m1", type |-> "misc"],
       [name |-> "v2", type |-> "vehicle"], [name |-> "v3", type |-> "vehicle"],
       [name |-> "p2", type |-> "pedestrian"], [name |-> "v4", type |-> "vehicle"],
       [name |-> "v5", type |-> "vehicle"], [name |-> "p3", type |-> "pedestrian"] >>

EntityExtras == { [name |-> "v6", type |-> "vehicle"], [name |-> "p4", type |-> "pedestrian"] }

PositionPool ==
    << [entity |-> "ego_vehicle", x |-> "0", y |-> "0", z |-> "0", h |-> "0"],
       [entity |-> "v1", x |-> "10.5", y |-> "-2", z |-> "0", h |-> "1.57"],
       [entity |-> "p1", x |-> "3", y |-> "4", z |-> "None", h |-> "None"],
       [entity |-> "v2", x |-> "20", y |-> "0", z |-> "0", h |-> "0"],
       [entity |-> "v3", x |-> "30", y |-> "0", z |-> "0", h |-> "0"],
       [entity |-> "v4", x |-> "40", y |-> "0", z |-> "0", h |-> "0"] >>

PositionExtras ==
    { [entity |-> "v5", x |-> "50", y |-> "0", z |-> "0", h |-> "0"],
      [entity |-> "p2", x |-> "None", y |-> "None", z |-> "None", h |-> "None"] }

EventPool ==
    << "ev1 after 5s actions=SpeedAction", "ev2", "actions=LaneChangeAction",
       "ev4 after 1s", "ev5", "ev6", "ev7", "ev8", "ev9",
       "ev10 when sim_time greaterThan 10s" >>

EventExtras == { "ev11", "ev12 after 2s" }

\* The lists of a digest: nothing, one entry, or the entries of the pool
\* followed by at most most - Len(pool) further entries.
ListsOf(pool, extras, most) ==
    { << >>, << pool[1] >> }
    \cup UNION { {pool \o t : t \in Tuples(n, extras)} : n \in 0..(most - Len(pool)) }

WeatherDicts ==
    { << [k |-> "cloud_state", v |-> ""], [k |-> "precipitation", v |-> ""],
         [k |-> "fog", v |-> ""], [k |-> "wind", v |-> ""] >>,
      << [k |-> "cloud_state", v |-> "free"], [k |-> "precipitation", v |-> ""],
         [k |-> "fog", v |-> "100000"], [k |-> "wind", v |-> ""] >>,
      << [k |-> "cloud_state", v |-> "rainy"],
         [k |-> "precipitation", v |-> "rain (intensity=0.5)"],
         [k |-> "fog", v |-> "50"], [k |-> "wind", v |-> "dir=0, speed=3"] >> }

NoDigest ==
    [map |-> "", time_of_day |-> "", weather |-> << >>, entities |-> << >>,
     initial_positions |-> << >>, events |-> << >>]

NoCompact == ""

\* ------------------------------------------------------------------ state

VARIABLES
    input,    \* the tree as parsed from the file
    before,   \* the tree as it was when the transformation was last called
    root,     \* the tree, transformed in place
    passes    \* how many times the transformation has run on it

redVars == <<input, before, root, passes>>

VARIABLES
    tool,        \* which script runs: "reduce", "inject", "filter"; "mutations"
                 \* for the mutations of one tree; "describe"; or "none"
    files,       \* the .xosc files of the input folder, in processing order
    pos,         \* the index of the file the loop of main is at
    pc,          \* where the script is
    xml,         \* the text in hand: read, or serialized after the transformation
    parsed,      \* inject: the parsed tree in hand
    valid,       \* the first component of what xsd_ok returned
    gate_calls,  \* the calls of xsd_ok so far: file, text, result
    written,     \* the output folder: per input file, the text written or NoText
    report,      \* what the script printed about each file
    counts,      \* ok_cnt / fail_cnt / skip_count
    rng          \* the state of the random stream

batchVars == <<tool, files, pos, pc, xml, parsed, valid, gate_calls, written, report,
               counts, rng>>

VARIABLES
    xosc,     \* describe_xosc: the document of the text to describe
    feat,     \* the features extracted from it
    dpc,      \* where describe_xosc is
    attempt,  \* the loop variable of its retry loop
    calls,    \* what each call of the text-generation service did, in order
    waits     \* the seconds of each time.sleep, in order

descVars == <<xosc, feat, dpc, attempt, calls, waits>>

VARIABLES
    folder,           \* build_dataset: the texts of the .xosc files of input_dir, sorted by path
    jsonl,            \* the lines of all.jsonl, in order
    seen_assistants,  \* the set main loads from all.jsonl
    bpos,             \* the index of the file the write loop is at
    bpc,              \* where main is
    runs              \* how many times main has been started

buildVars == <<folder, jsonl, seen_assistants, bpos, bpc, runs>>

VARIABLES
    digest,   \* the digest handed to features_to_compact_prompt
    compact   \* the text it returned, NoCompact before the call

renderVars == <<digest, compact>>

vars == <<redVars, batchVars, descVars, buildVars, renderVars>>

\* features_to_compact_prompt is not being called.
NotRendering ==
    /\ digest = NoDigest
    /\ compact = NoCompact

\* build_dataset has never run: there is no all.jsonl.
NotBuilding ==
    /\ folder = << >>
    /\ jsonl = << >>
    /\ seen_assistants = {}
    /\ bpos = 0
    /\ bpc = "none"
    /\ runs = 0

\* describe_xosc is not running.
NotDescribing ==
    /\ xosc = NoXosc
    /\ feat = NoFeatures
    /\ dpc = "none"
    /\ attempt = 0
    /\ calls = << >>
    /\ waits = << >>

\* Nothing is running.
Idle ==
    /\ tool = "none"
    /\ files = <<>>
    /\ pos = 0
    /\ pc = "none"
    /\ xml = NoText
    /\ parsed = NoText.tree
    /\ valid = "none"
    /\ gate_calls = {}
    /\ written = <<>>
    /\ report = <<>>
    /\ counts = [ok |-> 0, fail |-> 0, skip |-> 0]
    /\ rng = 0
    /\ NotDescribing
    /\ NotBuilding
    /\ NotRendering

\* ----------------------------------------------------- reduction, alone

\* The tree is any document of at most MaxNodes elements, or the concrete
\* scenario.
InitReduce ==
    /\ \/ \E t \in Sizes :
             \E o \in Tuples(t[1], ObjKinds), p \in Tuples(t[2], PrivRefs),
                s \in StoriesOfSize(t[3]) :
                 input = MakeDoc(o, p, s)
       \/ input = ConcreteScenario
       \/ input = WeatherScenario
    /\ root = input
    /\ before = input
    /\ passes = 0
    /\ Idle

\* One call of reduce_xosc_tree(root).
Reduce ==
    /\ tool = "none"
    /\ passes < MaxPasses
    /\ before' = root
    /\ root' = reduce_xosc_tree(root)
    /\ passes' = passes + 1
    /\ UNCHANGED <<input, batchVars, descVars, buildVars, renderVars>>

NextReduce == Reduce

SpecReduce == InitReduce /\ [][NextReduce]_vars

\* ------------------------------------------------------- the batch runs

InitBatch ==
    /\ tool \in {"reduce", "inject", "filter"}
    /\ files \in Folders
    /\ pos = 0
    /\ pc = "main"
    /\ xml = NoText
    /\ parsed = NoText.tree
    /\ valid = "none"
    /\ gate_calls = {}
    /\ written = [i \in DOMAIN files |-> NoText]
    /\ report = [i \in DOMAIN files |-> "none"]
    /\ counts = [ok |-> 0, fail |-> 0, skip |-> 0]
    /\ rng = 0
    /\ NotDescribing
    /\ NotBuilding
    /\ NotRendering
    /\ input = NoText.tree
    /\ before = NoText.tree
    /\ root = NoText.tree
    /\ passes = 0

\* The loop of main goes on to the next file, or ends with the summary.
Advance ==
    IF pos < Len(files)
    THEN pos' = pos + 1 /\ pc' = "read"
    ELSE pos' = pos /\ pc' = "end"

\* An exception nobody catches: the script stops with a traceback.
Crash == pos' = pos /\ pc' = "crashed"

\* The results xsd_ok can give for a text: a text that is not well-formed
\* XML is never valid.
xsd_ok(text) == IF text.wf THEN xsd_ok_results ELSE xsd_ok_results \ {"valid"}

\* The call of xsd_ok, in each of the three scripts (reduce_xosc.py line 186,
\* inject_diversity.py line 156, xsd_filter.py line 47).
XsdOk ==
    /\ pc = "gate"
    /\ \E v \in xsd_ok(xml) :
          /\ valid' = v
          /\ gate_calls' = gate_calls \cup {[file |-> pos, text |-> xml, result |-> v]}
    /\ pc' = "decide"
    /\ UNCHANGED <<tool, files, pos, xml, parsed, written, report, counts, rng, redVars, descVars, buildVars, renderVars>>

\* --- reduce_xosc.py

\* main, lines 208-223: the sorted paths; nothing to do without any.
ReduceMain ==
    /\ tool = "reduce" /\ pc = "main"
    /\ IF files = <<>> THEN pos' = pos /\ pc' = "end" ELSE pos' = 1 /\ pc' = "read"
    /\ UNCHANGED <<tool, files, xml, parsed, valid, gate_calls, written, report, counts,
                   rng, redVars, descVars, buildVars, renderVars>>

\* process_file, lines 178-179: open and read, outside any try.
ReduceRead ==
    /\ tool = "reduce" /\ pc = "read"
    /\ IF files[pos].readable
       THEN xml' = files[pos].text /\ pos' = pos /\ pc' = "transform"
       ELSE xml' = xml /\ Crash
    /\ UNCHANGED <<tool, files, parsed, valid, gate_calls, written, report, counts, rng,
                   redVars, descVars, buildVars, renderVars>>

\* process_file, lines 181-184, and the else branch of main for its result.
ReduceTransform ==
    /\ tool = "reduce" /\ pc = "transform"
    /\ IF xml.wf
       THEN /\ xml' = reduce_xosc_string(xml)
            /\ pos' = pos /\ pc' = "gate"
            /\ UNCHANGED <<report, counts>>
       ELSE /\ report' = [report EXCEPT ![pos] = "reduce_error"]
            /\ counts' = [counts EXCEPT !.fail = @ + 1]
            /\ xml' = xml
            /\ Advance
    /\ UNCHANGED <<tool, files, parsed, valid, gate_calls, written, rng, redVars, descVars, buildVars, renderVars>>

\* Whether the result of xsd_ok lets the file be saved.
saves_unless_rejected(v) == v # "invalid"

\* process_file line 187, "ok is True".
reduce_saves(v) == v = "valid"

\* process_file lines 187-191 and main lines 227-234; the write of the
\* output file is outside any try.
ReduceDecide ==
    /\ tool = "reduce" /\ pc = "decide"
    /\ IF reduce_saves(valid)
       THEN \/ /\ written' = [written EXCEPT ![pos] = xml]
               /\ counts' = [counts EXCEPT !.ok = @ + 1]
               /\ report' = [report EXCEPT ![pos] = "saved"]
               /\ Advance
            \/ /\ Crash
               /\ UNCHANGED <<written, counts, report>>
       ELSE /\ report' = [report EXCEPT ![pos] = "xsd_invalid"]
            /\ counts' = [counts EXCEPT !.fail = @ + 1]
            /\ written' = written
            /\ Advance
    /\ UNCHANGED <<tool, files, xml, parsed, valid, gate_calls, rng, redVars, descVars, buildVars, renderVars>>

\* --- inject_diversity.py

\* main, lines 175-183: the stream is seeded once, before the loop.
InjectMain ==
    /\ tool = "inject" /\ pc = "main"
    /\ rng' = seed(SEED)
    /\ IF files = <<>> THEN pos' = pos /\ pc' = "end" ELSE pos' = 1 /\ pc' = "read"
    /\ UNCHANGED <<tool, files, xml, parsed, valid, gate_calls, written, report, counts,
                   redVars, descVars, buildVars, renderVars>>

\* process_file, lines 141-146: ET.parse inside a try.
InjectParse ==
    /\ tool = "inject" /\ pc = "read"
    /\ IF files[pos].readable /\ files[pos].text.wf
       THEN /\ parsed' = parse(files[pos].text)
            /\ pos' = pos /\ pc' = "transform"
            /\ report' = report
       ELSE /\ report' = [report EXCEPT ![pos] = "parse_error"]
            /\ parsed' = parsed
            /\ Advance
    /\ UNCHANGED <<tool, files, xml, valid, gate_calls, written, counts, rng, redVars, descVars, buildVars, renderVars>>

\* process_file, lines 148-154: the three mutations, then the serialization.
InjectMutate ==
    /\ tool = "inject" /\ pc = "transform"
    /\ xml' = tostring(inject(parsed, rng).t, TRUE)
    /\ rng' = inject(parsed, rng).r
    /\ pc' = "gate"
    /\ UNCHANGED <<tool, files, pos, parsed, valid, gate_calls, written, report, counts,
                   redVars, descVars, buildVars, renderVars>>

\* process_file line 157, "if valid".
inject_saves(v) == v = "valid"

\* process_file, lines 157-166; the write is outside any try.
InjectDecide ==
    /\ tool = "inject" /\ pc = "decide"
    /\ IF inject_saves(valid)
       THEN \/ /\ written' = [written EXCEPT ![pos] = xml]
               /\ report' = [report EXCEPT ![pos] = "saved"]
               /\ Advance
            \/ /\ Crash
               /\ UNCHANGED <<written, report>>
       ELSE /\ report' = [report EXCEPT ![pos] = "xsd_invalid"]
            /\ written' = written
            /\ Advance
    /\ UNCHANGED <<tool, files, xml, parsed, valid, gate_calls, counts, rng, redVars, descVars, buildVars, renderVars>>

\* --- xsd_filter.py

\* main, lines 26-29.
FilterMain ==
    /\ tool = "filter" /\ pc = "main"
    /\ IF files = <<>> THEN pos' = pos /\ pc' = "end" ELSE pos' = 1 /\ pc' = "read"
    /\ UNCHANGED <<tool, files, xml, parsed, valid, gate_calls, written, report, counts,
                   rng, redVars, descVars, buildVars, renderVars>>

\* main, lines 39-45: the read is inside a try; the text is not parsed.
FilterRead ==
    /\ tool = "filter" /\ pc = "read"
    /\ IF files[pos].readable
       THEN /\ xml' = files[pos].text
            /\ pos' = pos /\ pc' = "gate"
            /\ UNCHANGED <<report, counts>>
       ELSE /\ report' = [report EXCEPT ![pos] = "skip_unreadable"]
            /\ counts' = [counts EXCEPT !.skip = @ + 1]
            /\ xml' = xml
            /\ Advance
    /\ UNCHANGED <<tool, files, parsed, valid, gate_calls, written, rng, redVars, descVars, buildVars, renderVars>>

\* main, lines 50-65: saved, or the run ends when there is no schema, or the
\* file is skipped.
FilterDecide ==
    /\ tool = "filter" /\ pc = "decide"
    /\ \/ /\ valid = "valid"
          /\ \/ /\ written' = [written EXCEPT ![pos] = xml]
                /\ counts' = [counts EXCEPT !.ok = @ + 1]
                /\ report' = [report EXCEPT ![pos] = "saved"]
             \/ /\ report' = [report EXCEPT ![pos] = "write_failed"]
                /\ counts' = [counts EXCEPT !.fail = @ + 1]
                /\ written' = written
          /\ Advance
       \/ /\ valid = "unavailable"
          /\ report' = [report EXCEPT ![pos] = "schema_unavailable"]
          /\ pos' = pos /\ pc' = "halted"
          /\ UNCHANGED <<written, counts>>
       \/ /\ valid = "invalid"
          /\ report' = [report EXCEPT ![pos] = "xsd_nope"]
          /\ counts' = [counts EXCEPT !.skip = @ + 1]
          /\ written' = written
          /\ Advance
    /\ UNCHANGED <<tool, files, xml, parsed, valid, gate_calls, rng, redVars, descVars, buildVars, renderVars>>

NextBatch ==
    \/ ReduceMain \/ ReduceRead \/ ReduceTransform \/ ReduceDecide
    \/ InjectMain \/ InjectParse \/ InjectMutate \/ InjectDecide
    \/ FilterMain \/ FilterRead \/ FilterDecide
    \/ XsdOk

SpecBatch == InitBatch /\ [][NextBatch]_vars

\* ------------------------------------------------------ injection, alone

\* The tree is any enumerated document with at most MaxEnvs Environment
\* elements; the stream is in any state (the files of a batch share one
\* stream, so a file can meet any).
InitInject ==
    /\ \E e \in EntityShapes, n \in 0..MaxEnvs :
          \E v \in Tuples(n, EnvKinds) : input = MakeEnvDoc(e, v)
    /\ root = input
    /\ before = input
    /\ passes = 0
    /\ tool = "mutations"
    /\ files = <<>>
    /\ pos = 0
    /\ pc = "none"
    /\ xml = NoText
    /\ parsed = NoText.tree
    /\ valid = "none"
    /\ gate_calls = {}
    /\ written = <<>>
    /\ report = <<>>
    /\ counts = [ok |-> 0, fail |-> 0, skip |-> 0]
    /\ rng \in 0..(RandMod - 1)
    /\ NotDescribing
    /\ NotBuilding
    /\ NotRendering

\* process_file lines 148-150 on root: inject_pedestrian,
\* mutate_time_of_day, mutate_weather.
Inject ==
    /\ tool = "mutations"
    /\ passes < MaxPasses
    /\ before' = root
    /\ root' = inject(root, rng).t
    /\ rng' = inject(root, rng).r
    /\ passes' = passes + 1
    /\ UNCHANGED <<input, tool, files, pos, pc, xml, parsed, valid, gate_calls, written,
                   report, counts, descVars, buildVars, renderVars>>

NextInject == Inject

SpecInject == InitInject /\ [][NextInject]_vars

\* ------------------------------------------- build_dataset.describe_xosc

\* range(6), line 45.
MaxAttempts == 6

\* No attempt is the last: the test of line 57 never true inside the loop.
NoLastAttempt == MaxAttempts

\* The attempt after which the exception is raised again, line 57.
LastAttempt == 5

\* 2 ** attempt, line 56.
RECURSIVE Pow2(_)
Pow2(n) == IF n = 0 THEN 1 ELSE 2 * Pow2(n - 1)

\* One Event: its name, its start trigger's SimulationTimeCondition
\* elements (none without a start trigger), its Action children.
MakeEvent(nm, has_trigger, conds, forest) ==
    [ name |-> nm, has_trigger |-> has_trigger, conds |-> conds,
      actions |-> Tagged(forest, << >>) ]

\* The text handed to describe_xosc parses to a document with or without a
\* namespace: one with entities and Environment elements, or one with an
\* Event.
InitDescribe ==
    /\ \E ns \in {NoNamespace, OSC_NS} :
          \/ \E e \in EntityShapes, n \in 0..MaxEnvs :
                \E v \in Tuples(n, EnvKinds) : xosc = MakeXosc(ns, e, v, << >>)
          \/ \E nm \in {NoName, "ev"}, has_trigger \in BOOLEAN, a \in 0..MaxActionNodes :
                \E c \in (IF has_trigger THEN 0..MaxConds ELSE {0}) :
                   \E conds \in Tuples(c, CondKinds), forest \in Forests(a) :
                      xosc = MakeXosc(ns, [entities |-> TRUE, names |-> << EGO_NAME >>],
                                      << >>,
                                      << MakeEvent(nm, has_trigger, conds, forest) >>)
    /\ feat = NoFeatures
    /\ dpc = "extract"
    /\ attempt = 0
    /\ calls = << >>
    /\ waits = << >>
    /\ NotBuilding
    /\ NotRendering
    /\ tool = "describe"
    /\ files = <<>>
    /\ pos = 0
    /\ pc = "none"
    /\ xml = NoText
    /\ parsed = NoText.tree
    /\ valid = "none"
    /\ gate_calls = {}
    /\ written = <<>>
    /\ report = <<>>
    /\ counts = [ok |-> 0, fail |-> 0, skip |-> 0]
    /\ rng = 0
    /\ input = NoText.tree
    /\ before = NoText.tree
    /\ root = NoText.tree
    /\ passes = 0

\* Lines 33-43: the features of the text, from which the message is made;
\* then the loop starts.
Extract ==
    /\ dpc = "extract"
    /\ feat' = extract_features(xosc)
    /\ attempt' = 0
    /\ dpc' = IF attempt' < MaxAttempts THEN "create" ELSE "fell_through"
    /\ UNCHANGED <<xosc, calls, waits, redVars, batchVars, buildVars, renderVars>>

\* Lines 46-54: one call of client.chat.completions.create.  It gives a
\* response whose text is returned, or something in the try raises (the
\* call itself, or a response without the text).
Create ==
    /\ dpc = "create"
    /\ \E result \in {"text", "raises"} :
          /\ calls' = Append(calls, result)
          /\ dpc' = IF result = "text" THEN "returned" ELSE "except"
    /\ UNCHANGED <<xosc, feat, attempt, waits, redVars, batchVars, buildVars, renderVars>>

\* Lines 55-58: the handler; after the last attempt the exception goes on.
Except ==
    /\ dpc = "except"
    /\ dpc' = IF attempt = LastAttempt THEN "raised" ELSE "sleep"
    /\ UNCHANGED <<xosc, feat, attempt, calls, waits, redVars, batchVars, buildVars, renderVars>>

\* Line 59 and the next round of the loop of line 45.
Sleep ==
    /\ dpc = "sleep"
    /\ waits' = Append(waits, Pow2(attempt))
    /\ attempt' = attempt + 1
    /\ dpc' = IF attempt' < MaxAttempts THEN "create" ELSE "fell_through"
    /\ UNCHANGED <<xosc, feat, calls, redVars, batchVars, buildVars, renderVars>>

NextDescribe == Extract \/ Create \/ Except \/ Sleep

SpecDescribe == InitDescribe /\ [][NextDescribe]_vars

\* describe_xosc is one sequential function: while it has a step to take, it
\* takes it (a call of the service returns or raises, a sleep ends).
SpecDescribeFair == SpecDescribe /\ WF_vars(NextDescribe)

\* ------------------------------------------------ build_dataset.main

\* No run yet, all.jsonl does not exist.
InitBuild ==
    /\ folder = << >>
    /\ jsonl = << >>
    /\ seen_assistants = {}
    /\ bpos = 0
    /\ bpc = "idle"
    /\ runs = 0
    /\ NotRendering
    /\ tool = "build"
    /\ files = <<>>
    /\ pos = 0
    /\ pc = "none"
    /\ xml = NoText
    /\ parsed = NoText.tree
    /\ valid = "none"
    /\ gate_calls = {}
    /\ written = <<>>
    /\ report = <<>>
    /\ counts = [ok |-> 0, fail |-> 0, skip |-> 0]
    /\ rng = 0
    /\ NotDescribing
    /\ input = NoText.tree
    /\ before = NoText.tree
    /\ root = NoText.tree
    /\ passes = 0

\* Lines 61-80: main starts on some input folder; all.jsonl is created
\* empty when it is not there; with no .xosc file main returns.
Main ==
    /\ tool = "build"
    /\ bpc \in {"idle", "done"}
    /\ runs < MaxRuns
    /\ \E f \in BuildFolders :
          /\ folder' = f
          /\ bpc' = IF f = << >> THEN "done" ELSE "load"
    /\ runs' = runs + 1
    /\ bpos' = 0
    /\ seen_assistants' = {}
    /\ UNCHANGED <<jsonl, redVars, batchVars, descVars, renderVars>>

\* Lines 82-91: the assistant field of every line of all.jsonl.
LoadSeen ==
    /\ tool = "build"
    /\ bpc = "load"
    /\ seen_assistants' = {jsonl[i].assistant : i \in DOMAIN jsonl}
    /\ bpos' = 1
    /\ bpc' = "loop"
    /\ UNCHANGED <<folder, jsonl, runs, redVars, batchVars, descVars, renderVars>>

\* Lines 101-104: the text of the file is in the set loaded: next file.
Skip ==
    /\ tool = "build"
    /\ bpc = "loop"
    /\ bpos <= Len(folder)
    /\ bpos \notin new_records(folder, seen_assistants)
    /\ bpos' = bpos + 1
    /\ UNCHANGED <<folder, jsonl, seen_assistants, bpc, runs, redVars, batchVars, descVars, renderVars>>

\* Lines 116-121: describe_xosc raised: next file, nothing written.
DescribeRaises ==
    /\ tool = "build"
    /\ bpc = "loop"
    /\ bpos <= Len(folder)
    /\ bpos \in new_records(folder, seen_assistants)
    /\ bpos' = bpos + 1
    /\ UNCHANGED <<folder, jsonl, seen_assistants, bpc, runs, redVars, batchVars, descVars, renderVars>>

\* Lines 116-132: describe_xosc returned: the record is appended and
\* flushed; the set loaded stays as it is.
WriteRecord ==
    /\ tool = "build"
    /\ bpc = "loop"
    /\ bpos <= Len(folder)
    /\ bpos \in new_records(folder, seen_assistants)
    /\ jsonl' = Append(jsonl, record(strip(folder[bpos])))
    /\ bpos' = bpos + 1
    /\ UNCHANGED <<folder, seen_assistants, bpc, runs, redVars, batchVars, descVars, renderVars>>

\* Lines 138-145: the loop is over, main returns.
Finish ==
    /\ tool = "build"
    /\ bpc = "loop"
    /\ bpos > Len(folder)
    /\ bpc' = "done"
    /\ UNCHANGED <<folder, jsonl, seen_assistants, bpos, runs, redVars, batchVars, descVars, renderVars>>

\* The process is stopped between two files; the lines flushed stay.
Interrupt ==
    /\ tool = "build"
    /\ bpc \in {"load", "loop"}
    /\ bpos <= Len(folder)
    /\ bpc' = "done"
    /\ UNCHANGED <<folder, jsonl, seen_assistants, bpos, runs, redVars, batchVars, descVars, renderVars>>

NextBuild ==
    \/ Main
    \/ LoadSeen
    \/ Skip
    \/ DescribeRaises
    \/ WriteRecord
    \/ Finish
    \/ Interrupt

SpecBuild == InitBuild /\ [][NextBuild]_vars

\* ------------------------------------------ features_to_compact_prompt

\* Any digest of the enumerated lists.
InitRender ==
    /\ \E m \in {"", "Town01.xodr"}, t \in {"", "2020-01-01T12:00:00"},
          w \in WeatherDicts,
          e \in ListsOf(EntityPool, EntityExtras, MaxEntities),
          ip \in ListsOf(PositionPool, PositionExtras, MaxPositions),
          ev \in ListsOf(EventPool, EventExtras, MaxEvents) :
          digest = [map |-> m, time_of_day |-> t, weather |-> w, entities |-> e,
                    initial_positions |-> ip, events |-> ev]
    /\ compact = NoCompact
    /\ tool = "render"
    /\ files = <<>>
    /\ pos = 0
    /\ pc = "none"
    /\ xml = NoText
    /\ parsed = NoText.tree
    /\ valid = "none"
    /\ gate_calls = {}
    /\ written = <<>>
    /\ report = <<>>
    /\ counts = [ok |-> 0, fail |-> 0, skip |-> 0]
    /\ rng = 0
    /\ NotDescribing
    /\ NotBuilding
    /\ input = NoText.tree
    /\ before = NoText.tree
    /\ root = NoText.tree
    /\ passes = 0

\* One call of features_to_compact_prompt(feat).
Render ==
    /\ tool = "render"
    /\ compact = NoCompact
    /\ compact' = features_to_compact_prompt(digest)
    /\ UNCHANGED <<digest, redVars, batchVars, descVars, buildVars>>

NextRender == Render

SpecRender == InitRender /\ [][NextRender]_vars

\* ----------------------------------------------------------- everything

Init == InitReduce \/ InitBatch \/ InitInject \/ InitDescribe \/ InitBuild \/ InitRender

Next == NextReduce \/ NextBatch \/ NextInject \/ NextDescribe \/ NextBuild \/ NextRender

Spec == Init /\ [][Next]_vars

\* ------------------------------------------------- properties of reduction

HasObject(tree, nm) == \E i \in DOMAIN tree.objs : tree.objs[i].name = nm

EgoObjects(tree) == {i \in DOMAIN tree.objs : tree.objs[i].name = EGO_NAME}

GroupsOf(tree) ==
    UNION { Range(tree.stories[s].groups) : s \in DOMAIN tree.stories }

IsSecondaryVehicle(so) == so.veh /\ so.name # EGO_NAME /\ ~so.ped

Names(objs) == [i \in DOMAIN objs |-> objs[i].name]

\* C1: reduction is idempotent: a second pass of reduce_xosc_tree over an
\* already reduced document leaves it as it is, removing no ScenarioObject,
\* Private, ManeuverGroup or Story.
C1_ReduceIdempotent == passes = 2 => root = before

\* A second pass over the result of a first pass that removed something.
C1_Witness == passes = 2 /\ before # input /\ root = before

\* C3 as claimed: after reduce every remaining Private names a
\* ScenarioObject that is still present, for every input document.
C3_PrivateRefsResolve ==
    passes >= 1 =>
        \A i \in DOMAIN root.privs : HasObject(root, root.privs[i].ref)

\* C3 amended: after reduce every remaining Private that does not reference
\* the ego name references a ScenarioObject still present, and so does every
\* remaining Private when the input has an ego ScenarioObject; a Private for
\* the ego name is kept even when no ego ScenarioObject exists.
C3_PrivateRefsResolveGivenEgo ==
    passes >= 1 =>
        /\ \A i \in DOMAIN root.privs :
              (root.privs[i].ref # EGO_NAME \/ HasObject(before, EGO_NAME))
                  => HasObject(root, root.privs[i].ref)
        /\ \A i \in DOMAIN before.privs :
              before.privs[i].ref = EGO_NAME => before.privs[i] \in Range(root.privs)

\* A reduction that removed a vehicle and its Private and kept the Private
\* of the kept vehicle.
C3_Witness ==
    /\ passes = 1
    /\ Len(root.objs) < Len(before.objs)
    /\ \E i \in DOMAIN before.privs :
          /\ before.privs[i] \notin Range(root.privs)
          /\ HasObject(before, before.privs[i].ref)
    /\ \E i \in DOMAIN root.privs : root.privs[i].ref = second_vehicle_name(before)

\* C4 as claimed: after reduce every actor reference of every remaining
\* ManeuverGroup names a ScenarioObject that is still present; stated for
\* the references that named an object before the reduction: a retained
\* group never references a vehicle that the reduction removed.
C4_ActorRefsResolve ==
    passes >= 1 =>
        \A mg \in GroupsOf(root) : \A r \in mg.actors :
            HasObject(before, r) => HasObject(root, r)

C6_PedestriansKept ==
    passes >= 1 =>
        \A i \in DOMAIN before.objs :
            before.objs[i].ped => before.objs[i] \in Range(root.objs)

\* A reduction that removed a vehicle and kept an object that has both a
\* Pedestrian and a Vehicle child.
C6_Witness ==
    /\ passes = 1
    /\ Len(root.objs) < Len(before.objs)
    /\ \E i \in DOMAIN root.objs : root.objs[i].ped /\ root.objs[i].veh

\* C7: after reduce there is at most one Story; when the input had stories
\* the survivor is the first, and no ManeuverGroup of a later Story is left.
C7_FirstStoryOnly ==
    passes >= 1 =>
        /\ Len(root.stories) <= 1
        /\ Len(before.stories) >= 1 =>
              /\ Len(root.stories) = 1
              /\ root.stories[1].id = before.stories[1].id
              /\ Range(root.stories[1].groups) \subseteq Range(before.stories[1].groups)

\* A reduction of a document with two stories whose second Story holds a
\* ManeuverGroup of the kept vehicle.
C7_Witness ==
    /\ passes = 1
    /\ Len(before.stories) >= 2
    /\ \E mg \in Range(before.stories[2].groups) :
          second_vehicle_name(before) \in mg.actors
    /\ Len(root.stories) = 1

\* C8: of the ScenarioObjects that have a Vehicle child, are not named
\* ego_vehicle and have no Pedestrian child, reduce keeps exactly the first
\* in document order.
C8_FirstSecondaryVehicleOnly ==
    passes >= 1 =>
        SelectSeq(root.objs, IsSecondaryVehicle) =
            IF SelectSeq(before.objs, IsSecondaryVehicle) = <<>> THEN <<>>
            ELSE << Head(SelectSeq(before.objs, IsSecondaryVehicle)) >>

\* The concrete scenario: ego, v1, v2, p1 reduces to ego, v1, p1.
C8_Witness ==
    /\ passes = 1
    /\ before = ConcreteScenario
    /\ Names(root.objs) = << EGO_NAME, "v1", "p1" >>

\* The names of the secondary vehicles of a tree that have a name.
SecondaryVehicleNames(tree) ==
    {tree.objs[k].name : k \in {j \in DOMAIN tree.objs :
        IsSecondaryVehicle(tree.objs[j]) /\ Truthy(tree.objs[j].name)}}

\* C21: a Private of the input is still there after reduce if and only if
\* its entityRef is the ego name or the name of the secondary vehicle that
\* is kept; the Private of any other entity goes, that of a retained
\* pedestrian too, and without a kept secondary vehicle only those of the
\* ego name stay.  Those that stay keep their order.
C21_PrivateKeptIffEgoOrSecond ==
    passes >= 1 =>
        root.privs =
            Restrict(before.privs,
                     {i \in DOMAIN before.privs :
                         \/ before.privs[i].ref = EGO_NAME
                         \/ before.privs[i].ref \in SecondaryVehicleNames(root)})

\* A pedestrian and a vehicle, each with a Private: both objects stay, the
\* Private of the vehicle stays and that of the pedestrian is removed.
C21_Witness ==
    /\ passes = 1
    /\ Len(root.objs) = 2 /\ Len(before.objs) = 2
    /\ \E k \in DOMAIN root.objs : root.objs[k].ped /\ ~root.objs[k].veh
    /\ Len(before.privs) = 2
    /\ \E i \in DOMAIN before.privs :
          /\ before.privs[i] \notin Range(root.privs)
          /\ \E k \in DOMAIN root.objs :
                root.objs[k].ped /\ root.objs[k].name = before.privs[i].ref
    /\ Len(root.privs) = 1
    /\ root.privs[1].ref \in SecondaryVehicleNames(root)

\* Whether some EntityRef below the group names a secondary vehicle that the
\* tree holds.
RefersToSecondary(mg, tree) ==
    \E r \in mg.actors \cup mg.trig : r \in SecondaryVehicleNames(tree)

Surviving(s, kept) == Restrict(s, {i \in DOMAIN s : s[i] \in kept})

\* C25: reduce removes only ScenarioObject, Private, ManeuverGroup and Story
\* elements: the Entities element and the Environment elements are as
\* before; the ScenarioObject, Private, Story and ManeuverGroup elements that
\* survive are as before, attributes and descendants (the references of the
\* triggers included), and in the order they had; a ScenarioObject with
\* neither Vehicle nor Pedestrian survives.
C25_OnlyFourKindsRemoved ==
    passes >= 1 =>
        /\ DOMAIN root = DOMAIN before
        /\ root.entities = before.entities
        /\ root.envs = before.envs
        /\ root.objs = Surviving(before.objs, Range(root.objs))
        /\ \A i \in DOMAIN before.objs :
              (~before.objs[i].veh /\ ~before.objs[i].ped) =>
                  before.objs[i] \in Range(root.objs)
        /\ root.privs = Surviving(before.privs, Range(root.privs))
        /\ root.stories =
              Restrict([s \in DOMAIN before.stories |->
                           [before.stories[s] EXCEPT
                               !.groups = Surviving(before.stories[s].groups,
                                                    GroupsOf(root))]],
                       {s \in DOMAIN before.stories :
                           \E t \in DOMAIN root.stories :
                               root.stories[t].id = before.stories[s].id})

\* A reduction removed a ScenarioObject and a Private from a document that
\* has a ScenarioObject with neither Vehicle nor Pedestrian, and that one is
\* still there.
C25_Witness ==
    /\ passes = 1
    /\ Len(root.objs) < Len(before.objs)
    /\ Len(root.privs) < Len(before.privs)
    /\ \E i \in DOMAIN before.objs :
          /\ ~before.objs[i].veh /\ ~before.objs[i].ped
          /\ before.objs[i] \in Range(root.objs)

\* The ego is the one object with a Vehicle child, and the one object of
\* its name.
OnlyVehicleIsEgo(tree) ==
    /\ Cardinality(EgoObjects(tree)) = 1
    /\ {i \in DOMAIN tree.objs : tree.objs[i].veh} = EgoObjects(tree)

\* C19: a document whose only vehicle-bearing object is the ego reduces to
\* a document whose entities are the ego only, without ManeuverGroup and
\* with at most one Story.
C19_EgoOnlyDocument ==
    (passes >= 1 /\ OnlyVehicleIsEgo(before)) =>
        /\ Len(root.objs) = 1
        /\ root.objs[1].name = EGO_NAME
        /\ GroupsOf(root) = {}
        /\ Len(root.stories) <= 1

\* C19, amended: the entities of such a document all stay (the ego, and the
\* pedestrians and other objects that bear no vehicle), no ManeuverGroup is
\* left, and of its stories the first stays, if it has any.
C19_EgoAndNonVehiclesKept ==
    (passes >= 1 /\ OnlyVehicleIsEgo(before)) =>
        /\ root.objs = before.objs
        /\ GroupsOf(root) = {}
        /\ Len(root.stories) <= 1
        /\ before.stories # <<>> =>
              /\ Len(root.stories) = 1
              /\ root.stories[1].id = before.stories[1].id

\* Ego and a pedestrian, a Story with a ManeuverGroup: the group went, the
\* Story is left empty, the pedestrian stays.
C19_Witness ==
    /\ passes = 1
    /\ OnlyVehicleIsEgo(input)
    /\ Len(input.objs) = 2
    /\ \E i \in DOMAIN input.objs : input.objs[i].ped
    /\ GroupsOf(input) # {}
    /\ root.objs = input.objs
    /\ Len(root.stories) = 1
    /\ root.stories[1].groups = <<>>

\* ------------------------------------------------ properties of the batches

\* C2: in the reduce and the inject runs, a file is written only after
\* xsd_ok has returned valid for exactly the text that is written; after any
\* other result of xsd_ok, or a parse or reduction error, nothing is written
\* for that file.
C2_WrittenOnlyIfValidated ==
    tool \in {"reduce", "inject"} =>
        \A i \in DOMAIN files :
            /\ written[i] # NoText =>
                  [file |-> i, text |-> written[i], result |-> "valid"] \in gate_calls
            /\ (\E c \in gate_calls : c.file = i /\ c.result # "valid") =>
                  written[i] = NoText
            /\ report[i] \in {"reduce_error", "parse_error"} => written[i] = NoText
            /\ ~(files[i].readable /\ files[i].text.wf) => written[i] = NoText

\* An inject run that saved one file after xsd_ok accepted it and saved
\* nothing for another, for which xsd_ok found no schema.
C2_Witness ==
    /\ tool = "inject"
    /\ pc = "end"
    /\ \E i, j \in DOMAIN files :
          /\ written[i] # NoText /\ written[i] # files[i].text
          /\ written[j] = NoText
          /\ \E c \in gate_calls : c.file = j /\ c.result = "unavailable"

\* C9 as claimed: once xsd_ok has reported the schema unavailable for a
\* file, the run does not go on to another file, and what it reports for
\* that file is not what it reports for a schema rejection.
C9_SchemaUnavailableHalts ==
    \A c \in gate_calls :
        c.result = "unavailable" =>
            /\ pos = c.file
            /\ pc \in {"decide", "halted"}
            /\ report[c.file] \in {"none", "schema_unavailable"}

\* C10 as claimed: in the reduce and the inject runs no error on one file
\* stops the run: the run never ends on an uncaught exception, and when it
\* has ended every file has been processed and reported.
C10_EveryFileProcessed ==
    tool \in {"reduce", "inject"} =>
        /\ pc # "crashed"
        /\ pc = "end" => \A i \in DOMAIN files : report[i] # "none"

\* ------------------------------------------------ properties of injection

\* The Environment elements of a tree whose Weather has a Precipitation.
WithPrecipitation(tree) ==
    {k \in DOMAIN tree.envs :
        tree.envs[k].weather.present /\ tree.envs[k].weather.precs # <<>>}

\* C11: every document produced by injection carries at least one
\* Precipitation record, whatever the input held (no Weather, no Environment).
C11_AlwaysPrecipitation == passes >= 1 => WithPrecipitation(root) # {}

\* C12: a Weather that had no Precipitation child before injection has exactly
\* one after it, of type rain, dry or snow and of intensity within [0, 1]
\* (thousandths: 0 .. 1000).
C12_PrecipitationSynthesized ==
    passes >= 1 =>
        \A k \in DOMAIN before.envs :
            (before.envs[k].weather.present /\ before.envs[k].weather.precs = <<>>) =>
                LET precs == root.envs[k].weather.precs
                IN  /\ Len(precs) = 1
                    /\ precs[1].precipitationType \in {"rain", "dry", "snow"}
                    /\ precs[1].has_intensity
                    /\ precs[1].intensity \in 0..1000

\* A Weather without Precipitation went through injection, after a Weather
\* of the same document that had two.
C12_Witness ==
    /\ passes = 1
    /\ Len(input.envs) = 2
    /\ Len(input.envs[1].weather.precs) = 2
    /\ input.envs[2].weather.present /\ input.envs[2].weather.precs = <<>>
    /\ Len(root.envs[2].weather.precs) = 1
    /\ root.envs[2].weather.precs[1].precipitationType = "snow"

\* Whether the names of the objects are pairwise different.
UniqueNames(objs) == \A i, j \in DOMAIN objs : objs[i].name = objs[j].name => i = j

\* C13: an inserted pedestrian is named by the first of ped, ped2, ped3, ...
\* that no entity of the document had, and comes after the entities that
\* were there, which stay as they were; names that were unique in the input
\* stay unique through successive injections.
C13_PedestrianNameUnique ==
    /\ (passes >= 1 /\ root.objs # before.objs) =>
          /\ Len(root.objs) = Len(before.objs) + 1
          /\ SubSeq(root.objs, 1, Len(before.objs)) = before.objs
          /\ LET nm  == root.objs[Len(root.objs)].name
                 old == Range(Names(before.objs))
             IN  /\ nm \notin old
                 /\ \E i \in 1..(Len(before.objs) + 1) :
                       /\ nm = ped_name(i)
                       /\ \A j \in 1..(i - 1) : ped_name(j) \in old
    /\ UniqueNames(input.objs) => UniqueNames(root.objs)

\* Two successive injections each inserted a pedestrian into a document that
\* had entities named ped and ped2: they are ped3 and ped4.
C13_Witness ==
    /\ passes = 2
    /\ Len(input.objs) = 3
    /\ Len(root.objs) = 5
    /\ root.objs[4].name = "ped3"
    /\ root.objs[5].name = "ped4"

\* C23: a Weather that has Precipitation children has the same number of
\* them after injection; each has a precipitationType of rain, dry or snow;
\* an intensity that was there is the same, one that was missing is filled
\* with a value within [0, 1] (thousandths: 0 .. 1000).
C23_ExistingPrecipitationFrame ==
    passes >= 1 =>
        \A k \in DOMAIN before.envs :
            (before.envs[k].weather.present /\ before.envs[k].weather.precs # <<>>) =>
                LET old == before.envs[k].weather.precs
                    new == root.envs[k].weather.precs
                IN  /\ Len(new) = Len(old)
                    /\ \A j \in DOMAIN old :
                          /\ new[j].precipitationType \in {"rain", "dry", "snow"}
                          /\ new[j].has_intensity
                          /\ old[j].has_intensity => new[j].intensity = old[j].intensity
                          /\ ~old[j].has_intensity => new[j].intensity \in 0..1000

\* A Weather with two Precipitation children went through injection: the
\* first got another type and kept its intensity of 2.0, the second, of an
\* unknown type and without intensity, got a type and an intensity.
C23_Witness ==
    /\ passes = 1
    /\ \E k \in DOMAIN input.envs :
          /\ Len(input.envs[k].weather.precs) = 2
          /\ input.envs[k].weather.precs[1].has_intensity
          /\ ~input.envs[k].weather.precs[2].has_intensity
          /\ root.envs[k].weather.precs[1].precipitationType
                # input.envs[k].weather.precs[1].precipitationType
          /\ root.envs[k].weather.precs[1].intensity = 2000
          /\ root.envs[k].weather.precs[2].has_intensity

\* C14: injection replaces the timestamp of a TimeOfDay that exists, and the
\* new timestamp takes exactly the whole seconds of the closed window: it
\* lies within 2019-01-01T00:00:00 .. 2025-08-20T23:59:59, the smallest value
\* of randrange gives the start and the largest gives the end.  Stated of
\* the first Environment of a document without Entities, whose TimeOfDay
\* takes the second value of the stream.
C14_TimestampClosedWindow ==
    [][ (tool = "mutations" /\ ~root.entities /\ Len(root.envs) >= 1
           /\ root.envs[1].tod.present) =>
          LET t == root'.envs[1].tod.dateTime
          IN  /\ t \in 0..WindowSeconds
              /\ rand_next(rng) = 0 => t = 0
              /\ rand_next(rng) = RandMod - 1 => t = WindowSeconds ]_vars

\* C15: under the fixed seed, what injection writes for a file is the same
\* whatever the order of the files and whatever the other files hold.  The
\* folder that holds the file alone is one of those runs, and there the file
\* meets the stream as seeded: so every run has to write what injection from
\* the seeded stream gives.
C15_OutputIndependentOfBatch ==
    tool = "inject" =>
        \A i \in DOMAIN files :
            written[i] # NoText =>
                written[i].tree = inject(parse(files[i].text), seed(SEED)).t

\* ------------------------------------------------ properties of describing

\* The same document without its namespace.
WithoutNamespace(tree) == [tree EXCEPT !.ns = NoNamespace]

\* C16: extraction, reduction and injection treat a document whose elements
\* carry a namespace as they treat the same document without it: the same
\* features, the same elements removed, the same fields mutated.
C16_NamespaceIgnored ==
    dpc # "extract" =>
        /\ feat = extract_features(WithoutNamespace(xosc))
        /\ WithoutNamespace(reduce_xosc_tree(xosc))
              = reduce_xosc_tree(WithoutNamespace(xosc))
        /\ \A r \in 0..(RandMod - 1) :
              /\ WithoutNamespace(inject(xosc, r).t) = inject(WithoutNamespace(xosc), r).t
              /\ inject(xosc, r).r = inject(WithoutNamespace(xosc), r).r

\* The time clauses among the bits of a description.
TimeClauses(bits) == {i \in DOMAIN bits : bits[i].clause \in {"after", "when"}}

\* C17: the description of an event holds at most one time clause, and when
\* the first SimulationTimeCondition of the start trigger has a value the
\* clause is that condition's, also when the trigger holds several.
C17_OneTimeClause ==
    dpc # "extract" =>
        \A d \in DOMAIN feat.events :
            LET bits == feat.events[d]
                ev   == xosc.events[d]
            IN  /\ Cardinality(TimeClauses(bits)) <= 1
                /\ (ev.conds # << >> /\ Truthy(ev.conds[1].value)) =>
                      \E i \in TimeClauses(bits) :
                          bits[i].text[Len(bits[i].text)] = ev.conds[1].value

\* The tags of the childless elements of a forest.
RECURSIVE Leaves(_)
Leaves(forest) ==
    UNION { IF forest[i].children = << >> THEN { forest[i].tag }
            ELSE Leaves(forest[i].children) : i \in DOMAIN forest }

\* Document order of two elements of the same depth, by their places.
ComesBefore(a, b) ==
    \E i \in 1..Len(a) : a[i] < b[i] /\ \A j \in 1..(i - 1) : a[j] = b[j]

\* Whether tag is that of the deepest childless element below the Action,
\* the first of them in document order.
IsDeepestFirstLeaf(act, tag) ==
    /\ tag \in Leaves(act.children)
    /\ \A other \in Leaves(act.children) :
          \/ Len(other) < Len(tag)
          \/ other = tag
          \/ Len(other) = Len(tag) /\ ComesBefore(tag, other)

\* C18: for each Action that has elements below it, the kind reported is the
\* tag of its deepest childless descendant, the first such in document
\* order, whatever the shape of the subtree.
C18_DeepestFirstLeaf ==
    (dpc # "extract" /\ xosc.ns = NoNamespace /\ xosc.events # << >>) =>
        LET ev    == xosc.events[1]
            with  == {k \in DOMAIN ev.actions : ev.actions[k].children # << >>}
            kinds == IF feat.events # << >>
                        /\ feat.events[1][Len(feat.events[1])].clause = "actions"
                     THEN feat.events[1][Len(feat.events[1])].text
                     ELSE << >>
        IN  /\ Len(kinds) = Cardinality(with)
            /\ \A n \in DOMAIN kinds :
                  \E k \in with :
                      /\ Cardinality({j \in with : j <= k}) = n
                      /\ IsDeepestFirstLeaf(ev.actions[k], kinds[n])

\* C20: describe_xosc calls the service at most 6 times; it returns at the
\* first call that gives a text; after the k-th failed attempt, k = 0..4, it
\* sleeps 2^k seconds before the next call; after the 6th failure it raises
\* without another sleep; and it always ends, returning or raising.
C20_BoundedBackoff ==
    /\ [](/\ Len(calls) <= 6
          /\ \A i \in 1..(Len(calls) - 1) : calls[i] = "raises"
          /\ (calls # << >> /\ calls[Len(calls)] = "text") <=> dpc = "returned"
          /\ Len(waits) <= 5
          /\ \A k \in 0..4 : k + 1 <= Len(waits) => waits[k + 1] = 2 ^ k
          /\ dpc = "create" => Len(waits) = Len(calls)
          /\ dpc = "raised" =>
                /\ Len(calls) = 6
                /\ calls[6] = "raises"
                /\ Len(waits) = 5
          /\ dpc # "fell_through")
    /\ <>(dpc \in {"returned", "raised"})

\* Six calls failed: 1, 2, 4, 8 and 16 seconds were slept and the exception
\* of the sixth went on.
C20_Witness ==
    /\ dpc = "raised"
    /\ calls = << "raises", "raises", "raises", "raises", "raises", "raises" >>
    /\ waits = << 1, 2, 4, 8, 16 >>


\* ------------------------------------------- properties of build_dataset

\* C24: all.jsonl never holds two records with the same document text in the
\* assistant field.
C24_NoDuplicateAssistants ==
    \A i, j \in DOMAIN jsonl : jsonl[i].assistant = jsonl[j].assistant => i = j

\* Across runs the set loaded does its work: a record written by a run has a
\* text that no line had when the run loaded all.jsonl.
C24_NoDuplicateAcrossRuns ==
    [][\A i \in DOMAIN jsonl' \ DOMAIN jsonl :
          jsonl'[i].assistant \notin seen_assistants]_vars


\* ------------------- properties of features_to_compact_prompt

\* Lists a and b have the same entries at the positions 1 .. n.
SameWithin(a, b, n) ==
    \A i \in 1..n :
        /\ i \in DOMAIN a <=> i \in DOMAIN b
        /\ i \in DOMAIN a => a[i] = b[i]

\* The entries 1 .. n of items from entry i on, in their order, with sep
\* between them.
RECURSIVE Listed(_, _, _, _)
Listed(items, i, n, sep) ==
    IF i > n \/ i > Len(items) THEN ""
    ELSE (IF i > 1 THEN sep ELSE "") \o items[i] \o Listed(items, i + 1, n, sep)

\* The lines of the text of a digest: those of the fields that are not
\* lists, then one line for each list that is not empty, with its first
\* 10, 6 and 10 entries.
ExpectedLines(d) ==
    compact_lines([d EXCEPT !.entities = << >>, !.initial_positions = << >>,
                            !.events = << >>])
    \o (IF d.entities = << >> THEN << >>
        ELSE << "Entities: " \o Listed(ents(d.entities), 1, 10, ", ") >>)
    \o (IF d.initial_positions = << >> THEN << >>
        ELSE << "InitialPositions: " \o Listed(ips(d.initial_positions), 1, 6, "; ") >>)
    \o (IF d.events = << >> THEN << >>
        ELSE << "Events: " \o Listed(d.events, 1, 10, " | ") >>)

\* C26: the text lists, in the order of the digest, the first 10 entities,
\* the first 6 initial positions and the first 10 events and nothing of the
\* entries after them; a digest that differs from the rendered one only in
\* entries after these limits renders to the same text.
C26_RenderedWithinLimits ==
    compact # NoCompact =>
        /\ compact = (IF ExpectedLines(digest) = << >> THEN "No features extracted."
                      ELSE join(ExpectedLines(digest), "\n"))
        /\ \A e \in ListsOf(EntityPool, EntityExtras, MaxEntities),
              ip \in ListsOf(PositionPool, PositionExtras, MaxPositions),
              ev \in ListsOf(EventPool, EventExtras, MaxEvents) :
              ( /\ SameWithin(e, digest.entities, 10)
                /\ SameWithin(ip, digest.initial_positions, 6)
                /\ SameWithin(ev, digest.events, 10) ) =>
                  features_to_compact_prompt(
                      [digest EXCEPT !.entities = e, !.initial_positions = ip,
                                     !.events = ev]) = compact

\* A digest with more than 10 entities, more than 6 initial positions and
\* more than 10 events has been rendered.
C26_Witness ==
    /\ compact # NoCompact
    /\ Len(digest.entities) > 10
    /\ Len(digest.initial_positions) > 6
    /\ Len(digest.events) > 10

====
